---- MODULE Spec2Model ----
(***************************************************************************)
(* A model of the holoplus pipeline: the thread harvester                  *)
(* (talent-channel-newest.py) and the Discord notifier (notify.py).        *)
(*                                                                         *)
(* Python values are modelled as follows.  A dict is a function whose      *)
(* domain is the set of keys present; d.get(k, default) is Get(d, k,       *)
(* default).  An optional value (None or a value) is a sequence of length  *)
(* 0 or 1.  A JSON file on disk is a record [kind, data] whose kind is     *)
(* "absent", "corrupt" (not parseable as JSON) or "json".                  *)
(***************************************************************************)
EXTENDS Integers, Sequences, FiniteSets, TLC

VARIABLES
    \* ---- harvester (_main_async) ----
    rows,                  \* talent-channel.json: the channel snapshot
    all_threads,           \* args.all
    fullFile,              \* talent-channel-newest.json
    newFile,               \* new.json
    pc,                    \* position of _main_async
    existing_thread_ids,   \* the known-ID set
    tasks,                 \* the per-channel tasks, in creation order
    pending,               \* indices of tasks that have not completed
    taskResult,            \* what each completed task returned
    per_channel_results,   \* results in completion order
    results,               \* the merged, sorted harvest
    fullAtStart,           \* content of talent-channel-newest.json when the run began
    newAtStart,            \* content of new.json when the run began
    \* ---- iter_all_threads ----
    it_pc,                 \* position of the generator
    it_cursor,             \* the local variable cursor
    it_requests,           \* the cursor argument of every request issued
    it_pages,              \* every response received
    it_yielded,            \* every item yielded
    \* ---- sanitization across two harvests of one thread ----
    s_pc,
    s_thread,              \* the thread as the API currently returns it
    s_harvests,            \* the thread and the mode (all_threads) of each harvest so far
    s_first,               \* what the first harvest stored
    s_second,              \* what the second harvest stored
    \* ---- notifier (notify.main) ----
    n_pc,                  \* position of main / send_discord_webhook
    n_entries,             \* new.json as loaded
    n_i,                   \* index of the entry being delivered
    n_log,                 \* every request issued, in issue order
    n_inflight,            \* requests issued and not yet answered
    n_delivered            \* messages the webhook accepted, in order

harvesterVars == <<rows, all_threads, fullFile, newFile, pc, existing_thread_ids,
                   tasks, pending, taskResult, per_channel_results, results,
                   fullAtStart, newAtStart>>
iterVars == <<it_pc, it_cursor, it_requests, it_pages, it_yielded>>
sanitizeVars == <<s_pc, s_thread, s_harvests, s_first, s_second>>
notifierVars == <<n_pc, n_entries, n_i, n_log, n_inflight, n_delivered>>
vars == <<harvesterVars, iterVars, sanitizeVars, notifierVars>>
\* what each component leaves alone
notHarvester == <<iterVars, sanitizeVars, notifierVars>>
notIter == <<harvesterVars, sanitizeVars, notifierVars>>
notSanitize == <<harvesterVars, iterVars, notifierVars>>
notNotifier == <<harvesterVars, iterVars, sanitizeVars>>

-----------------------------------------------------------------------------
(* Bounds of the model *)

\* most rows in the channel snapshot
MaxChannels == 2
\* most requests one pagination issues
MaxPages == 2
\* most items on one page of the pagination
MaxItems == 2
\* largest value of a volatile counter
MaxCount == 0
\* most entries in new.json
MaxEntries == 2

-----------------------------------------------------------------------------
(* Python helpers *)

None == <<>>
Some(x) == <<x>>

\* d.get(k, default)
Get(d, k, default) == IF k \in DOMAIN d THEN d[k] ELSE default

\* d.pop(k, None) on a copy
Pop(d, k) == [x \in (DOMAIN d) \ {k} |-> d[x]]

\* truthiness of an optional string: neither None nor ""
Truthy(opt) == opt # None /\ opt[1] # ""

RECURSIVE Flatten(_)
Flatten(ss) == IF ss = <<>> THEN <<>> ELSE Head(ss) \o Flatten(Tail(ss))

Front(s) == SubSeq(s, 1, Len(s) - 1)
Last(s) == s[Len(s)]

SeqsUpTo(S, n) == UNION {[1..k -> S] : k \in 0..n}

Range(s) == {s[i] : i \in DOMAIN s}

-----------------------------------------------------------------------------
(* _sanitize_thread and _collect_threads_for_channel_sync *)

SanitizeKeepsUserReacted(thread) ==
    Pop(Pop(Pop(Pop(thread, "updated_at"), "reaction_total"), "reply_count"),
        "is_favorite")

SanitizeThread(thread) ==
    Pop(Pop(Pop(Pop(Pop(thread, "updated_at"), "reaction_total"), "reply_count"),
            "is_favorite"), "user_reacted_count")

\* the loop body shared by both modes: drop a thread without id, else store it
RECURSIVE CollectItems(_, _, _)
CollectItems(channel_id, channel_name, items) ==
    IF items = <<>> THEN <<>>
    ELSE LET thread == Head(items)
             thread_id == Get(thread, "id", "")
             rest == CollectItems(channel_id, channel_name, Tail(items))
         IN  IF thread_id = "" THEN rest
             ELSE <<[channel_id |-> channel_id,
                     channel_name |-> channel_name,
                     thread_id |-> thread_id,
                     thread |-> SanitizeThread(thread)]>> \o rest

\* data.get("items") or []
ItemsOf(page) == Get(page, "items", <<>>)

\* data.get("next_cursor")
NextCursorOf(page) == IF "next_cursor" \in DOMAIN page THEN Some(page.next_cursor) ELSE None

\* where the loop of iter_all_threads goes after a page: the two breaks
ContinuesPastEmptyPage(page) ==
    IF ~Truthy(NextCursorOf(page)) THEN "done" ELSE "request"

AfterPage(page) ==
    IF ItemsOf(page) = <<>> THEN "done"
    ELSE IF ~Truthy(NextCursorOf(page)) THEN "done"
    ELSE "request"

PageEndsIteration(page) == AfterPage(page) = "done"

\* iter_all_threads against a server that answers the k-th request with pages[k]
RECURSIVE IterAllThreads(_)
IterAllThreads(pages) ==
    IF pages = <<>> THEN <<>>
    ELSE IF PageEndsIteration(Head(pages)) THEN ItemsOf(Head(pages))
    ELSE ItemsOf(Head(pages)) \o IterAllThreads(Tail(pages))

CollectThreadsForChannelSync(channel_id, channel_name, all, pages) ==
    IF all
    THEN CollectItems(channel_id, channel_name, IterAllThreads(pages))
    ELSE CollectItems(channel_id, channel_name, ItemsOf(Head(pages)))

-----------------------------------------------------------------------------
(* Two harvests of one thread whose volatile fields change in between *)

VolatileFields ==
    {"updated_at", "reaction_total", "reply_count", "is_favorite", "user_reacted_count"}

\* the fields of a thread that are not volatile, as the API may return them
StableParts ==
    { [id |-> "A", created_at |-> 1, title |-> "t"],
      [id |-> "B"],
      [created_at |-> 1, title |-> "t"],
      [id |-> "", created_at |-> 1] }

VolatileParts == UNION {[D -> 0..MaxCount] : D \in SUBSET VolatileFields}

RawThreads == {stable @@ volatile : stable \in StableParts, volatile \in VolatileParts}

\* the API's answer for a channel that holds exactly this thread
OneThreadResponse(thread) == <<[items |-> <<thread>>]>>

SInit ==
    /\ s_pc = "first"
    /\ s_thread \in RawThreads
    /\ s_harvests = <<>>
    /\ s_first = <<>>
    /\ s_second = <<>>

SHarvestFirst ==
    /\ s_pc = "first"
    /\ \E all \in BOOLEAN :
         /\ s_first' = CollectThreadsForChannelSync("c1", "one", all,
                                                   OneThreadResponse(s_thread))
         /\ s_harvests' = <<[thread |-> s_thread, all |-> all]>>
    /\ s_pc' = "between"
    /\ UNCHANGED <<s_thread, s_second>>
    /\ UNCHANGED notSanitize

\* engagement on the thread changes one volatile field
SChurnSet ==
    /\ s_pc = "between"
    /\ \E k \in VolatileFields, v \in 0..MaxCount :
         s_thread' = (k :> v) @@ Pop(s_thread, k)
    /\ UNCHANGED <<s_pc, s_harvests, s_first, s_second>>
    /\ UNCHANGED notSanitize

SChurnRemove ==
    /\ s_pc = "between"
    /\ \E k \in VolatileFields \cap DOMAIN s_thread :
         s_thread' = Pop(s_thread, k)
    /\ UNCHANGED <<s_pc, s_harvests, s_first, s_second>>
    /\ UNCHANGED notSanitize

SHarvestSecond ==
    /\ s_pc = "between"
    /\ \E all \in BOOLEAN :
         /\ s_second' = CollectThreadsForChannelSync("c1", "one", all,
                                                    OneThreadResponse(s_thread))
         /\ s_harvests' = Append(s_harvests, [thread |-> s_thread, all |-> all])
    /\ s_pc' = "done"
    /\ UNCHANGED <<s_thread, s_first>>
    /\ UNCHANGED notSanitize

SNext ==
    \/ SHarvestFirst
    \/ SChurnSet
    \/ SChurnRemove
    \/ SHarvestSecond

-----------------------------------------------------------------------------
(* iter_all_threads, one request at a time *)

PageItems == {[id |-> "a"], [id |-> "b"], [id |-> "c"]}

\* the responses the API may give: items and next_cursor each absent or present
Pages ==
    LET itemLists == SeqsUpTo(PageItems, MaxItems)
        cursors == {"", "x", "y"}
    IN  {[items |-> i, next_cursor |-> c] : i \in itemLists, c \in cursors}
        \cup {[items |-> i] : i \in itemLists}
        \cup {[next_cursor |-> c] : c \in cursors}
        \cup {<<>>}

\* params["cursor"] of fetch_newest_threads: set only for a truthy cursor
CursorParam(cursor) == IF Truthy(cursor) THEN cursor ELSE None

ItInit ==
    /\ it_pc = "request"
    /\ it_cursor = None
    /\ it_requests = <<>>
    /\ it_pages = <<>>
    /\ it_yielded = <<>>

ItRequest ==
    /\ it_pc = "request"
    /\ Len(it_requests) < MaxPages
    /\ it_requests' = Append(it_requests, CursorParam(it_cursor))
    /\ it_pc' = "await"
    /\ UNCHANGED <<it_cursor, it_pages, it_yielded>>
    /\ UNCHANGED notIter

ItResponse ==
    /\ it_pc = "await"
    /\ \E page \in Pages :
         /\ it_pages' = Append(it_pages, page)
         /\ it_yielded' = it_yielded \o ItemsOf(page)
         /\ it_cursor' = IF ItemsOf(page) = <<>> THEN it_cursor ELSE NextCursorOf(page)
         /\ it_pc' = AfterPage(page)
    /\ UNCHANGED it_requests
    /\ UNCHANGED notIter

\* resp.raise_for_status() raises
ItHttpError ==
    /\ it_pc = "await"
    /\ it_pc' = "error"
    /\ UNCHANGED <<it_cursor, it_requests, it_pages, it_yielded>>
    /\ UNCHANGED notIter

ItNext ==
    \/ ItRequest
    \/ ItResponse
    \/ ItHttpError

-----------------------------------------------------------------------------
(* The harvester: _main_async *)

FileAbsent == [kind |-> "absent", data |-> <<>>]
FileCorrupt == [kind |-> "corrupt", data |-> <<>>]
JsonFile(data) == [kind |-> "json", data |-> data]

\* rows of talent-channel.json; the last one has no id
ChannelRows ==
    { [id |-> "c1", name |-> "one"],
      [id |-> "c2", name |-> "two"],
      [name |-> "zero"] }

Snapshots == SeqsUpTo(ChannelRows, MaxChannels)

\* threads as the API returns them
ThreadA == [id |-> "A", created_at |-> 3, reply_count |-> 1, updated_at |-> 4]
ThreadAChurned == [id |-> "A", created_at |-> 3, reply_count |-> 2, updated_at |-> 5]
ThreadB == [id |-> "B", created_at |-> 2, title |-> "b"]
ThreadC == [id |-> "C", created_at |-> 2]
ThreadD == [id |-> "D", title |-> "d", is_favorite |-> 1]
ThreadE == [id |-> "E", created_at |-> 1, user_reacted_count |-> 0, reaction_total |-> 0]
ThreadNoId == [created_at |-> 5, title |-> "n"]
ThreadEmptyId == [id |-> "", created_at |-> 5]

\* what the thread endpoint may answer for a channel: the k-th request gets page k
ApiResponses ==
    { <<[items |-> <<ThreadA, ThreadB>>, next_cursor |-> "x"],
        [items |-> <<ThreadE, ThreadAChurned>>]>>,
      <<[items |-> <<ThreadD, ThreadNoId, ThreadC>>, next_cursor |-> "x"],
        [items |-> <<>>, next_cursor |-> "y"]>>,
      <<[items |-> <<ThreadEmptyId, ThreadB>>, next_cursor |-> ""],
        [items |-> <<ThreadE>>]>>,
      <<[next_cursor |-> "x"]>> }

\* key=lambda row: (row.get("thread") or {}).get("created_at", 0)
SortKey(row) == Get(Get(row, "thread", <<>>), "created_at", 0)

\* insert behind every element whose key is not smaller: the sort is stable
InsertDesc(sorted, row) ==
    LET ahead == {i \in DOMAIN sorted : SortKey(sorted[i]) >= SortKey(row)}
        n == Cardinality(ahead)
    IN  SubSeq(sorted, 1, n) \o <<row>> \o SubSeq(sorted, n + 1, Len(sorted))

RECURSIVE StableSortDesc(_)
StableSortDesc(s) ==
    IF s = <<>> THEN <<>> ELSE InsertDesc(StableSortDesc(Front(s)), Last(s))

LeavesUnsorted(s) == s

\* list.sort(key=..., reverse=True)
SortDesc(s) == StableSortDesc(s)

\* the try/except around the previous harvest: whether the run goes on, and
\* the known-ID set.  Every thread_id of the model is a string, so the
\* isinstance test of line 199 leaves only the test for a non-empty value.
LoadPreviousWithoutDecodeHandler(file) ==
    IF file.kind = "absent" THEN [ok |-> TRUE, ids |-> {}]
    ELSE IF file.kind = "corrupt" THEN [ok |-> FALSE, ids |-> {}]
    ELSE [ok |-> TRUE,
          ids |-> {Get(file.data[i], "thread_id", "") : i \in DOMAIN file.data} \ {""}]

LoadPrevious(file) ==
    IF file.kind = "absent" THEN [ok |-> TRUE, ids |-> {}]
    ELSE IF file.kind = "corrupt" THEN [ok |-> TRUE, ids |-> {}]
    ELSE [ok |-> TRUE,
          ids |-> {Get(file.data[i], "thread_id", "") : i \in DOMAIN file.data} \ {""}]

\* the tasks list: one task per row with an id
RECURSIVE TasksOf(_)
TasksOf(rs) ==
    IF rs = <<>> THEN <<>>
    ELSE LET channel_id == Get(Head(rs), "id", "")
             channel_name == Get(Head(rs), "name", "")
         IN  IF channel_id = "" THEN TasksOf(Tail(rs))
             ELSE <<[channel_id |-> channel_id, channel_name |-> channel_name]>>
                  \o TasksOf(Tail(rs))

\* the as_completed loop has consumed every task
WritesWithoutJoin(pend) == TRUE
JoinedAll(pend) == pend = {}

MergeKeepsLastOnly(per) == IF per = <<>> THEN <<>> ELSE Last(per)

\* [item for channel_items in per_channel_results for item in channel_items]
Merge(per) == Flatten(per)

KeepsKnown(merged, known) ==
    SelectSeq(merged, LAMBDA row : Get(row, "thread_id", "") \in known)

\* [row for row in results if row.get("thread_id") not in existing_thread_ids]
NewResults(merged, known) ==
    SelectSeq(merged, LAMBDA row : Get(row, "thread_id", "") \notin known)

\* what an earlier run left on disk: a first run over one channel
EarlierRun(row, all, response) ==
    LET full == SortDesc(Merge(<<CollectThreadsForChannelSync(row.id, row.name, all,
                                                             response)>>))
    IN  <<JsonFile(full), JsonFile(SortDesc(NewResults(full, {})))>>

\* talent-channel-newest.json and new.json before the run
PriorFiles ==
    { <<FileAbsent, FileAbsent>>,
      <<FileCorrupt, JsonFile(<<>>)>>,
      EarlierRun([id |-> "c1", name |-> "one"], FALSE,
                 <<[items |-> <<ThreadB, ThreadA>>, next_cursor |-> "x"]>>),
      EarlierRun([id |-> "c2", name |-> "two"], TRUE,
                 <<[items |-> <<ThreadD, ThreadNoId, ThreadC>>, next_cursor |-> "x"],
                   [items |-> <<>>, next_cursor |-> "y"]>>) }

HInit ==
    /\ rows \in Snapshots
    /\ all_threads \in BOOLEAN
    /\ \E prior \in PriorFiles : fullFile = prior[1] /\ newFile = prior[2]
    /\ pc = "load"
    /\ existing_thread_ids = {}
    /\ tasks = <<>>
    /\ pending = {}
    /\ taskResult = <<>>
    /\ per_channel_results = <<>>
    /\ results = <<>>
    /\ fullAtStart = fullFile
    /\ newAtStart = newFile

\* lines 192-206
ReadPrevious ==
    /\ pc = "load"
    /\ LET loaded == LoadPrevious(fullFile)
       IN  /\ existing_thread_ids' = loaded.ids
           /\ pc' = IF loaded.ok THEN "spawn" ELSE "crashed"
    /\ UNCHANGED <<rows, all_threads, fullFile, newFile, tasks, pending, taskResult,
                   per_channel_results, results, fullAtStart, newAtStart>>
    /\ UNCHANGED notHarvester

\* lines 208-223
CreateTasks ==
    /\ pc = "spawn"
    /\ tasks' = TasksOf(rows)
    /\ pending' = DOMAIN tasks'
    /\ pc' = "gather"
    /\ UNCHANGED <<rows, all_threads, fullFile, newFile, existing_thread_ids,
                   taskResult, per_channel_results, results, fullAtStart, newAtStart>>
    /\ UNCHANGED notHarvester

\* a task returns and the as_completed loop appends its list (lines 227-230)
TaskCompletes(t) ==
    /\ pc = "gather"
    /\ t \in pending
    /\ \E response \in ApiResponses :
         LET channel_items ==
                 CollectThreadsForChannelSync(tasks[t].channel_id, tasks[t].channel_name,
                                              all_threads, response)
         IN  /\ taskResult' = (t :> channel_items) @@ taskResult
             /\ per_channel_results' = Append(per_channel_results, channel_items)
    /\ pending' = pending \ {t}
    /\ UNCHANGED <<rows, all_threads, fullFile, newFile, pc, existing_thread_ids, tasks,
                   results, fullAtStart, newAtStart>>
    /\ UNCHANGED notHarvester

\* a fetch of the task raises HTTPError, which "await coro" re-raises
TaskFails(t) ==
    /\ pc = "gather"
    /\ t \in pending
    /\ pc' = "aborted"
    /\ UNCHANGED <<rows, all_threads, fullFile, newFile, existing_thread_ids, tasks,
                   pending, taskResult, per_channel_results, results,
                   fullAtStart, newAtStart>>
    /\ UNCHANGED notHarvester

\* lines 232-243
WriteFull ==
    /\ pc = "gather"
    /\ JoinedAll(pending)
    /\ results' = SortDesc(Merge(per_channel_results))
    /\ fullFile' = JsonFile(results')
    /\ pc' = "diff"
    /\ UNCHANGED <<rows, all_threads, newFile, existing_thread_ids, tasks, pending,
                   taskResult, per_channel_results, fullAtStart, newAtStart>>
    /\ UNCHANGED notHarvester

\* lines 250-260
WriteNew ==
    /\ pc = "diff"
    /\ newFile' = JsonFile(SortDesc(NewResults(results, existing_thread_ids)))
    /\ pc' = "done"
    /\ UNCHANGED <<rows, all_threads, fullFile, existing_thread_ids, tasks, pending,
                   taskResult, per_channel_results, results, fullAtStart, newAtStart>>
    /\ UNCHANGED notHarvester

HNext ==
    \/ ReadPrevious
    \/ CreateTasks
    \/ \E t \in pending : TaskCompletes(t)
    \/ \E t \in pending : TaskFails(t)
    \/ WriteFull
    \/ WriteNew

-----------------------------------------------------------------------------
(* The notifier: notify.main and send_discord_webhook *)

\* entries of new.json: without voice clip, with one, with a voice clip that
\* has no url, and with an empty url
NotifierEntries ==
    { [channel_name |-> "one", thread_id |-> "A", thread |-> [id |-> "A", title |-> "a"]],
      [channel_name |-> "one", thread_id |-> "B",
       thread |-> [id |-> "B", voice_clip |-> [url |-> "https://v/b.mp3"]]],
      [channel_name |-> "two", thread_id |-> "C",
       thread |-> [id |-> "C", voice_clip |-> [duration |-> "3"]]],
      [channel_name |-> "two", thread_id |-> "D",
       thread |-> [id |-> "D", voice_clip |-> [url |-> ""]]] }

\* voice_url of build_discord_payload: (thread.get("voice_clip") or {}).get("url")
VoiceUrlOf(entry) ==
    LET thread == Get(entry, "thread", <<>>)
        voice_clip == Get(thread, "voice_clip", <<>>)
    IN  IF "url" \in DOMAIN voice_clip THEN Some(voice_clip.url) ELSE None

\* "if voice_url:" after the payload was accepted
AlwaysFetchesVoice(voice_url) == "get_voice"
AfterPayload(voice_url) == IF Truthy(voice_url) THEN "get_voice" ELSE "next"

\* raise_for_status() and the SystemExit it is turned into
IgnoresStatus(ok, goesOn) == goesOn
AfterStatus(ok, goesOn) == IF ok THEN goesOn ELSE "aborted"

NInit ==
    /\ n_pc = "load"
    /\ n_entries \in SeqsUpTo(NotifierEntries, MaxEntries)
    /\ n_i = 0
    /\ n_log = <<>>
    /\ n_inflight = {}
    /\ n_delivered = <<>>

\* lines 142-145: nothing to send
NNoEntries ==
    /\ n_pc = "load"
    /\ n_entries = <<>>
    /\ n_pc' = "noop"
    /\ UNCHANGED <<n_entries, n_i, n_log, n_inflight, n_delivered>>
    /\ UNCHANGED notNotifier

\* line 147: the loop takes the first entry
NStart ==
    /\ n_pc = "load"
    /\ n_entries # <<>>
    /\ n_i' = 1
    /\ n_pc' = "post_json"
    /\ UNCHANGED <<n_entries, n_log, n_inflight, n_delivered>>
    /\ UNCHANGED notNotifier

\* a blocking requests call is issued
NIssue(at, kind, waits) ==
    /\ n_pc = at
    /\ n_log' = Append(n_log, [entry |-> n_i, kind |-> kind, status |-> "pending"])
    /\ n_inflight' = n_inflight \cup {Len(n_log) + 1}
    /\ n_pc' = waits
    /\ UNCHANGED <<n_entries, n_i, n_delivered>>
    /\ UNCHANGED notNotifier

\* the call returns with a status; goesOn is where the code continues on success
NAnswered(at, goesOn, posts) ==
    /\ n_pc = at
    /\ \E ok \in BOOLEAN :
         LET req == Len(n_log)
             to == AfterStatus(ok, goesOn)
         IN  /\ n_log' = [n_log EXCEPT ![req].status = IF ok THEN "ok" ELSE "failed"]
             /\ n_inflight' = n_inflight \ {req}
             /\ n_delivered' = IF ok /\ posts
                               THEN Append(n_delivered, [entry |-> n_log[req].entry,
                                                         kind |-> n_log[req].kind])
                               ELSE n_delivered
             /\ IF to = "next"
                THEN /\ n_i' = n_i + 1
                     /\ n_pc' = IF n_i < Len(n_entries) THEN "post_json" ELSE "done"
                ELSE /\ n_i' = n_i
                     /\ n_pc' = to
    /\ UNCHANGED n_entries
    /\ UNCHANGED notNotifier

\* lines 94-103
NPostPayload == NIssue("post_json", "json", "await_json")
NPayloadAnswered ==
    NAnswered("await_json", AfterPayload(VoiceUrlOf(n_entries[n_i])), TRUE)

\* lines 108-114
NGetVoice == NIssue("get_voice", "download", "await_voice")
NVoiceAnswered == NAnswered("await_voice", "post_voice", FALSE)

\* lines 124-132
NPostVoice == NIssue("post_voice", "attachment", "await_attachment")
NAttachmentAnswered == NAnswered("await_attachment", "next", TRUE)

NNext ==
    \/ NNoEntries
    \/ NStart
    \/ NPostPayload
    \/ NPayloadAnswered
    \/ NGetVoice
    \/ NVoiceAnswered
    \/ NPostVoice
    \/ NAttachmentAnswered

-----------------------------------------------------------------------------
(* Specifications.  Each fixes the variables of the other components. *)

HIdle ==
    /\ rows = <<>>
    /\ all_threads = FALSE
    /\ fullFile = FileAbsent
    /\ newFile = FileAbsent
    /\ pc = "idle"
    /\ existing_thread_ids = {}
    /\ tasks = <<>>
    /\ pending = {}
    /\ taskResult = <<>>
    /\ per_channel_results = <<>>
    /\ results = <<>>
    /\ fullAtStart = FileAbsent
    /\ newAtStart = FileAbsent

ItIdle ==
    /\ it_pc = "idle"
    /\ it_cursor = None
    /\ it_requests = <<>>
    /\ it_pages = <<>>
    /\ it_yielded = <<>>

SIdle ==
    /\ s_pc = "idle"
    /\ s_thread = <<>>
    /\ s_harvests = <<>>
    /\ s_first = <<>>
    /\ s_second = <<>>

NIdle ==
    /\ n_pc = "idle"
    /\ n_entries = <<>>
    /\ n_i = 0
    /\ n_log = <<>>
    /\ n_inflight = {}
    /\ n_delivered = <<>>

Init == HInit /\ ItIdle /\ SIdle /\ NIdle
Next == HNext
Spec == Init /\ [][Next]_vars

IterInit == ItInit /\ HIdle /\ SIdle /\ NIdle
IterSpec == IterInit /\ [][ItNext]_vars

SanitizeInit == SInit /\ HIdle /\ ItIdle /\ NIdle
SanitizeSpec == SanitizeInit /\ [][SNext]_vars

NotifierInit == NInit /\ HIdle /\ ItIdle /\ SIdle
NotifierSpec == NotifierInit /\ [][NNext]_vars

-----------------------------------------------------------------------------
(* Properties of the sanitization (SanitizeSpec) *)

\* what one harvest stored for the thread it was given
StoredBy(h) == IF h = 1 THEN s_first ELSE s_second

-----------------------------------------------------------------------------
(* Properties of the pagination (IterSpec) *)

\* a page with no items, or with no next_cursor (absent or empty)
IsLastPage(page) ==
    \/ "items" \notin DOMAIN page
    \/ page.items = <<>>
    \/ "next_cursor" \notin DOMAIN page
    \/ page.next_cursor = ""

\* C3: the first request carries no cursor; every later request carries the
\* next_cursor of the page before it, and that page had items and a
\* next_cursor; the items yielded are those of the fetched pages in page and
\* item order; the generator is finished exactly when the last fetched page
\* has no items or no next_cursor, and then no request is outstanding.
PaginationTerminates ==
    LET n == Len(it_pages)
    IN  /\ Len(it_requests) = IF it_pc \in {"await", "error"} THEN n + 1 ELSE n
        /\ it_requests # <<>> => it_requests[1] = None
        /\ \A i \in 2..Len(it_requests) :
             /\ ~IsLastPage(it_pages[i - 1])
             /\ it_requests[i] = <<it_pages[i - 1].next_cursor>>
        /\ it_yielded = Flatten([i \in 1..n |-> IF "items" \in DOMAIN it_pages[i]
                                                THEN it_pages[i].items ELSE <<>>])
        /\ it_pc = "done" => n >= 1 /\ IsLastPage(it_pages[n])
        /\ (it_pc = "request" /\ n >= 1) => ~IsLastPage(it_pages[n])
        /\ it_pc = "done" => it_yielded = IterAllThreads(it_pages)

\* page1 = {items: [a, b], next_cursor: "x"}, page2 = {items: [c]}
PaginationWitness ==
    /\ it_pc = "done"
    /\ it_requests = <<None, <<"x">> >>
    /\ it_yielded = <<[id |-> "a"], [id |-> "b"], [id |-> "c"]>>

\* an empty first page that names a next_cursor ends the iteration
EmptyPageWitness ==
    /\ it_pc = "done"
    /\ it_pages = <<[items |-> <<>>, next_cursor |-> "y"]>>
    /\ it_requests = <<None>>
    /\ it_yielded = <<>>

-----------------------------------------------------------------------------
(* Properties of the harvester (Spec) *)

\* how often e occurs in the sequence
Count(seq, e) == Cardinality({i \in DOMAIN seq : seq[i] = e})

\* the thread_id values of the harvest file the run found on disk
PreviousIds == {fullAtStart.data[i].thread_id : i \in DOMAIN fullAtStart.data}

\* created_at of an entry's thread, 0 when it has none
CreatedAtOrZero(entry) ==
    IF "created_at" \in DOMAIN entry.thread THEN entry.thread.created_at ELSE 0

Descending(data) ==
    \A i \in 1..(Len(data) - 1) : CreatedAtOrZero(data[i]) >= CreatedAtOrZero(data[i + 1])

RECURSIVE IsSubsequence(_, _)
IsSubsequence(sub, seq) ==
    IF sub = <<>> THEN TRUE
    ELSE IF seq = <<>> THEN FALSE
    ELSE IF Head(sub) = Head(seq) THEN IsSubsequence(Tail(sub), Tail(seq))
    ELSE IsSubsequence(sub, Tail(seq))

\* C1: when the run found a harvest file written by an earlier run, the known-ID
\* set holds that file's thread_id values from before the file is overwritten,
\* and new.json holds exactly the entries of the merged harvest whose thread_id
\* is not among them: none with a known id, and each other one as often as
\* the merged harvest holds it.
NewItemsAreTheUnknownIds ==
    fullAtStart.kind = "json" =>
        /\ pc \in {"spawn", "gather", "diff", "done", "aborted"} =>
               existing_thread_ids = PreviousIds
        /\ pc = "done" =>
               /\ newFile.kind = "json"
               /\ \A i \in DOMAIN newFile.data : newFile.data[i].thread_id \notin PreviousIds
               /\ \A e \in Range(fullFile.data) \cup Range(newFile.data) :
                    Count(newFile.data, e) =
                        IF e.thread_id \in PreviousIds THEN 0 ELSE Count(fullFile.data, e)

\* a run after an earlier one that finds both known and unknown threads
NewItemsWitness ==
    /\ pc = "done"
    /\ fullAtStart.kind = "json"
    /\ PreviousIds = {"A", "B"}
    /\ newFile.data # <<>>
    /\ Len(newFile.data) < Len(fullFile.data)
    /\ fullFile # fullAtStart

\* C2: a run in which a channel fetch failed is aborted, takes no further step,
\* and leaves talent-channel-newest.json and new.json as they were; no file is
\* written while a channel task is still outstanding.
FailedFetchLeavesFiles ==
    /\ pc = "aborted" =>
           /\ fullFile = fullAtStart
           /\ newFile = newAtStart
           /\ ~ENABLED HNext
    /\ pc \in {"load", "spawn", "gather"} =>
           fullFile = fullAtStart /\ newFile = newAtStart
    /\ pc \in {"diff", "done"} => pending = {}

\* a fetch fails after another channel's task has already delivered its threads
FailedFetchWitness ==
    /\ pc = "aborted"
    /\ Len(tasks) = 2
    /\ Len(per_channel_results) = 1
    /\ per_channel_results[1] # <<>>
    /\ fullAtStart.kind = "json"
    /\ fullFile = fullAtStart

\* C4: when the previous harvest file is absent or is not valid JSON the run
\* does not fail on it, the known-ID set is empty, and a run that completes
\* writes every entry of the merged harvest to new.json.
FirstRunTreatsAllAsNew ==
    fullAtStart.kind \in {"absent", "corrupt"} =>
        /\ pc # "crashed"
        /\ existing_thread_ids = {}
        /\ pc = "done" =>
               /\ newFile.kind = "json"
               /\ Len(newFile.data) = Len(fullFile.data)
               /\ \A e \in Range(fullFile.data) :
                    Count(newFile.data, e) = Count(fullFile.data, e)

\* a completed run over a corrupt previous file that harvested several threads
CorruptPreviousWitness ==
    /\ pc = "done"
    /\ fullAtStart.kind = "corrupt"
    /\ Len(fullFile.data) >= 2
    /\ newFile.data = fullFile.data

\* C7: no two entries of the harvest file a run wrote share a thread_id.
HarvestIsDeduplicated ==
    pc \in {"diff", "done"} =>
        \A i, j \in DOMAIN fullFile.data :
            i # j => fullFile.data[i].thread_id # fullFile.data[j].thread_id

\* C8: the harvest file and the new-items file a run wrote are in descending
\* order of thread.created_at, a missing created_at counting as 0.
FilesAreDescending ==
    /\ pc \in {"diff", "done"} => fullFile.kind = "json" /\ Descending(fullFile.data)
    /\ pc = "done" => newFile.kind = "json" /\ Descending(newFile.data)

\* a harvest merged out of order, with a thread without created_at, which
\* ends up last
DescendingWitness ==
    /\ pc = "done"
    /\ Merge(per_channel_results) # fullFile.data
    /\ Len(newFile.data) >= 3
    /\ "created_at" \notin DOMAIN Last(newFile.data).thread
    /\ \E i \in DOMAIN fullFile.data : CreatedAtOrZero(fullFile.data[i]) = 3
    /\ "created_at" \notin DOMAIN Last(fullFile.data).thread

\* the orders in which the tasks may complete
CompletionOrders ==
    {order \in [DOMAIN tasks -> DOMAIN tasks] :
        \A a, b \in DOMAIN tasks : a # b => order[a] # order[b]}

\* what the run writes when the tasks, returning the same lists, complete in
\* this order
HarvestUnder(order) ==
    LET full == SortDesc(Merge([i \in DOMAIN tasks |-> taskResult[order[i]]]))
    IN  [full |-> full, new |-> SortDesc(NewResults(full, existing_thread_ids))]

\* C10 as stated: whatever the order of completion, both files are the same,
\* entry by entry.
CompletionOrderIrrelevant ==
    pc = "done" =>
        \A order \in CompletionOrders :
            /\ fullFile.data = HarvestUnder(order).full
            /\ newFile.data = HarvestUnder(order).new

SameUpToTies(data, other) ==
    /\ Len(data) = Len(other)
    /\ \A i \in DOMAIN data : CreatedAtOrZero(data[i]) = CreatedAtOrZero(other[i])
    /\ \A e \in Range(data) \cup Range(other) : Count(data, e) = Count(other, e)

\* C10 amended: whatever the order of completion, both files hold the same
\* entries, each as often, with the same created_at at every position; only
\* entries with equal created_at may change places.  The files are written
\* after every task has completed, and the entries one task returned with one
\* created_at keep their pagination order in the harvest file.
CompletionOrderUpToTies ==
    /\ pc \in {"diff", "done"} => pending = {}
    /\ pc = "done" =>
        /\ \A order \in CompletionOrders :
             /\ SameUpToTies(fullFile.data, HarvestUnder(order).full)
             /\ SameUpToTies(newFile.data, HarvestUnder(order).new)
        /\ \A t \in DOMAIN tasks :
             \A e \in Range(taskResult[t]) :
                IsSubsequence(SelectSeq(taskResult[t],
                                        LAMBDA x : CreatedAtOrZero(x) = CreatedAtOrZero(e)),
                              fullFile.data)

\* two channels return threads with the same created_at, the second channel's
\* task completes first, and the harvest file differs from the one written
\* when the first channel's task completes first
TiedCompletionWitness ==
    /\ pc = "done"
    /\ Len(tasks) = 2
    /\ per_channel_results = <<taskResult[2], taskResult[1]>>
    /\ fullFile.data # SortDesc(Merge(<<taskResult[1], taskResult[2]>>))
    /\ newFile.data # <<>>

-----------------------------------------------------------------------------
(* Properties of the notifier (NotifierSpec) *)

\* thread.voice_clip.url is there and not empty
HasVoiceUrl(entry) ==
    /\ "voice_clip" \in DOMAIN entry.thread
    /\ "url" \in DOMAIN entry.thread.voice_clip
    /\ entry.thread.voice_clip.url # ""

\* the last request the notifier makes for an entry
LastKindFor(entry) == IF HasVoiceUrl(entry) THEN "attachment" ELSE "json"

\* C5: requests go out one at a time and in new.json order: at most one is in
\* flight, and it is the latest; a request is issued only after every earlier
\* one was answered; the first request is the payload of entry 1; a download
\* directly follows the accepted payload of the same entry, an attachment the
\* finished download of the same entry, both only for an entry with a voice
\* url; and the payload of entry i+1 directly follows the accepted last request
\* of entry i.
DeliveryIsSequential ==
    /\ Cardinality(n_inflight) <= 1
    /\ n_inflight \subseteq {Len(n_log)}
    /\ \A j \in DOMAIN n_log :
         LET req == n_log[j]
         IN  /\ req.status = "pending" <=> j \in n_inflight
             /\ req.entry \in DOMAIN n_entries
             /\ j = 1 => req.entry = 1 /\ req.kind = "json"
             /\ j > 1 =>
                  LET before == n_log[j - 1]
                  IN  /\ before.status = "ok"
                      /\ req.kind = "download" =>
                             /\ before.entry = req.entry
                             /\ before.kind = "json"
                             /\ HasVoiceUrl(n_entries[req.entry])
                      /\ req.kind = "attachment" =>
                             /\ before.entry = req.entry
                             /\ before.kind = "download"
                             /\ HasVoiceUrl(n_entries[req.entry])
                      /\ req.kind = "json" =>
                             /\ before.entry + 1 = req.entry
                             /\ before.kind = LastKindFor(n_entries[before.entry])

\* two entries delivered, a voice clip for the first and none for the second
SequentialWitness ==
    /\ n_pc = "done"
    /\ Len(n_entries) = 2
    /\ HasVoiceUrl(n_entries[1])
    /\ ~HasVoiceUrl(n_entries[2])
    /\ Len(n_log) = 4
    /\ Len(n_delivered) = 3

\* the posts the webhook accepted, in the order of the log
AcceptedPosts ==
    LET accepted == SelectSeq(n_log, LAMBDA req : req.status = "ok" /\ req.kind # "download")
    IN  [j \in DOMAIN accepted |-> [entry |-> accepted[j].entry, kind |-> accepted[j].kind]]

\* C6: a request that is refused is the last request of the run: the run is
\* aborted with nothing in flight and takes no further step, while every post
\* accepted before it stays delivered, among them the payload of every earlier
\* entry.
FailureAbortsRun ==
    /\ \A j \in DOMAIN n_log :
         n_log[j].status = "failed" => j = Len(n_log) /\ n_pc = "aborted"
    /\ n_pc = "aborted" =>
         /\ n_log # <<>>
         /\ Last(n_log).status = "failed"
         /\ Last(n_log).entry = n_i
         /\ n_inflight = {}
         /\ ~ENABLED NNext
         /\ \A e \in 1..(n_i - 1) :
              \E d \in DOMAIN n_delivered : n_delivered[d] = [entry |-> e, kind |-> "json"]
    /\ n_delivered = AcceptedPosts

\* the voice download of the second entry fails after the first entry and the
\* second entry's payload were delivered
FailureWitness ==
    /\ n_pc = "aborted"
    /\ n_i = 2
    /\ Last(n_log).kind = "download"
    /\ Len(n_delivered) >= 2

====
